---- MODULE Spec2Model ----
(***************************************************************************)
(* FastCS: the serial transport (fastcs/connections/serial_connection.py)  *)
(* and the Tango device-server backend (fastcs/backends/tango/dsr.py).     *)
(*                                                                         *)
(* Spec     : one SerialConnection used by several asyncio tasks.          *)
(* SpecAttr : _collect_dev_attributes over a controller tree, followed by  *)
(*            calls of the getters and setters it bound.                   *)
(* SpecRun  : TangoDSR.run over a controller tree, and the device served.  *)
(* SpecReg  : register_dev called repeatedly on one database.              *)
(***************************************************************************)
EXTENDS Integers, Sequences, FiniteSets, TLC

(* ------------------------------ bounds --------------------------------- *)

\* asyncio tasks sharing the one SerialConnection
NumTasks == 2
\* calls issued on the connection in one behaviour (all tasks together), the
\* cancellations of suspended calls included
MaxCalls == 3
\* bytes of one message
MsgLen == 2
\* largest response_size of a send_query
MaxResponseSize == 1

\* attributes in the whole controller tree
MaxAttrs == 2

\* commands in the whole controller tree
MaxCmds == 1
\* characters of a name to be transformed
MaxNameLen == 3
\* calls of register_dev in one behaviour
MaxRegs == 2

Tasks == 1..NumTasks
\* the serial ports a SerialConnectionSettings names
Ports == {1, 2}

(* ------------------------------ state ---------------------------------- *)

VARIABLES
    aioserial_instance, \* self.aioserial_instance: 0 is None, else an index of handles
    handles,            \* the AioSerial objects created so far: [port, is_open]
    lock,               \* self._lock: 0 when free, else the task holding it
    pc,                 \* where each task is suspended
    call,               \* the call each task is executing
    result,             \* how each task's last call ended
    wire,               \* every byte written, in the order the ports saw them
    rx,                 \* per port: the bytes the device sent, not yet read
    acquired,           \* the calls in the order they acquired the lock
    ncalls              \* calls issued (and cancelled) so far

serial_vars == <<aioserial_instance, handles, lock, pc, call, result, wire, rx,
                 acquired, ncalls>>

VARIABLES
    mapping,     \* get_controller_mappings(): per controller its path and attributes
    stage,       \* "idle", "collecting", "assembled" (returned) or "failed" (raised)
    ci,          \* _collect_dev_attributes: the controller the outer loop is at
    ai,          \* _collect_dev_attributes: the attribute the inner loop is at
    collection,  \* _collect_dev_attributes: collection, device name -> field
    error,       \* the exception _collect_dev_attributes raised and the type its
                 \* message names: <<>> when none
    cached,      \* per attribute <<controller, name>>: the value attribute.get() returns
    called       \* the call of a bound getter or setter and how it ended

dsr_vars == <<mapping, stage, ci, ai, collection, error, cached, called>>

VARIABLES
    commands,       \* per controller: the items of single_mapping.command_methods
    run_pc,         \* TangoDSR.run: the statement it is at ("idle": not called)
    run_raised,     \* the exception run() raised to its caller: <<>> when none
    li,             \* _link_process_tasks: the controller its loop is at
    put_linked,     \* per controller: calls of _link_single_controller_put_tasks
    sender_linked,  \* per controller: calls of _link_attribute_sender_class
    cci,            \* _collect_dev_commands: the controller the outer loop is at
    cai,            \* _collect_dev_commands: the command the inner loop is at
    cmd_collection, \* _collect_dev_commands: collection, device name -> command
    class_body,     \* run: class_body, the namespace of the device class
    options,        \* run: options
    db,             \* the records of the control-system database
    reg_pc,         \* register_dev: the statement it is at
    reg_args,       \* register_dev: dev_name, dev_class, dsr_instance
    reg_raised,     \* the exception register_dev raised: <<>> when none
    read_dev_info,  \* register_dev: the record read back: <<>> before
    nregs,          \* calls of register_dev so far
    init_pc,        \* init_device: the statement it is at
    init_trace,     \* init_device: the calls it made and how they ended, in order
    init_raised,    \* the exception init_device raised: <<>> when none
    dev_state,      \* the device state kept by set_state
    served,         \* server.run: <<>> before, else the classes and arguments it got
    cmd_called,     \* the call of a command wrapper and how it ended
    invoked,        \* per controller and method: invocations so far
    subject,        \* a controller path and a name to be given a device-facing name
    named           \* the device-facing names made of subject, as attribute and command

link_vars == <<li, put_linked, sender_linked>>
cmd_vars == <<cci, cai, cmd_collection>>
reg_vars == <<db, reg_pc, reg_args, reg_raised, read_dev_info, nregs>>
device_vars == <<served, init_pc, init_trace, init_raised, dev_state, cmd_called, invoked>>
naming_vars == <<subject, named>>
run_vars == <<commands, run_pc, run_raised, class_body, options,
              link_vars, cmd_vars, reg_vars, device_vars, naming_vars>>

None == 0

NoCall == [op |-> "none", id |-> 0, size |-> 0, nwritten |-> 0, wh |-> None, rh |-> None]

NoResult == [op |-> "none", id |-> 0, status |-> "none", data |-> <<>>,
             size |-> 0, wh |-> None, rh |-> None]

SerialInit ==
    /\ aioserial_instance = None
    /\ handles = <<>>
    /\ lock = 0
    /\ pc = [p \in Tasks |-> "idle"]
    /\ call = [p \in Tasks |-> NoCall]
    /\ result = [p \in Tasks |-> NoResult]
    /\ wire = <<>>
    /\ rx = [q \in Ports |-> <<>>]
    /\ acquired = <<>>
    /\ ncalls = 0

(* ------------------------------ helpers -------------------------------- *)

\* ensure_open: TRUE when it returns, FALSE when it raises NotOpenedError
ensure_open_mut(h) == TRUE
ensure_open(h) == h # None

\* async with self._lock: the lock can be taken
lock_free_mut == TRUE
lock_free == lock = 0

\* AioSerial.close() of the object self.aioserial_instance refers to
aioserial_close_mut(hs, h) == hs
aioserial_close(hs, h) == [hs EXCEPT ![h].is_open = FALSE]

\* the port an AioSerial object is attached to
PortOf(h) == handles[h].port

\* the device's answer to a query: size bytes, each naming the query
Response(id, size) == [i \in 1..size |-> <<id, i>>]

\* read_async(size): the first size bytes the port holds
read_async(buf, size) == SubSeq(buf, 1, size)

Finished(c, status, data) ==
    [op |-> c.op, id |-> c.id, status |-> status, data |-> data,
     size |-> c.size, wh |-> c.wh, rh |-> c.rh]

\* the connection state of the specification: Unopened, Open or Closed
State ==
    IF aioserial_instance # None THEN "Open"
    ELSE IF \E h \in DOMAIN handles : ~handles[h].is_open THEN "Closed"
    ELSE "Unopened"

(* ------------------------------ actions -------------------------------- *)

\* connect(settings): not under the lock; replaces the handle
connect(p, port) ==
    /\ pc[p] = "idle"
    /\ ncalls < MaxCalls
    /\ ncalls' = ncalls + 1
    /\ handles' = Append(handles, [port |-> port, is_open |-> TRUE])
    /\ aioserial_instance' = Len(handles) + 1
    /\ result' = [result EXCEPT ![p] =
            [NoResult EXCEPT !.op = "connect", !.id = ncalls + 1, !.status = "ok"]]
    /\ UNCHANGED <<lock, pc, call, wire, rx, acquired>>
    /\ UNCHANGED <<dsr_vars, run_vars>>

\* the calls suspended in async with self._lock
Waiting == {q \in Tasks : pc[q] = "waiting"}

\* asyncio.Lock wakes its waiters first come, first served
FirstWaiter(p) == \A q \in Waiting : call[p].id <= call[q].id

\* send_command, send_query or close is called while the lock is held or owed to
\* an earlier caller: the call suspends in async with self._lock
wait(p, o, size) ==
    /\ pc[p] = "idle"
    /\ ncalls < MaxCalls
    /\ ~(lock = 0 /\ Waiting = {})
    /\ ncalls' = ncalls + 1
    /\ pc' = [pc EXCEPT ![p] = "waiting"]
    /\ call' = [call EXCEPT ![p] = [NoCall EXCEPT !.op = o, !.id = ncalls + 1, !.size = size]]
    /\ UNCHANGED <<aioserial_instance, handles, lock, result, wire, rx, acquired>>
    /\ UNCHANGED <<dsr_vars, run_vars>>

\* the lock is acquired, ensure_open raises NotOpenedError, the lock is released
ensure_open_raises(p, c) ==
    /\ ~ensure_open(aioserial_instance)
    /\ pc' = [pc EXCEPT ![p] = "idle"]
    /\ result' = [result EXCEPT ![p] = Finished(c, "NotOpenedError", <<>>)]
    /\ call' = [call EXCEPT ![p] = NoCall]
    /\ UNCHANGED <<aioserial_instance, handles, lock>>

\* send_command / send_query: lock acquired, ensure_open passed, _send_message
\* awaits write_async on the object self.aioserial_instance names now
send_message(p, c) ==
    /\ c.op \in {"send_command", "send_query"}
    /\ ensure_open(aioserial_instance)
    /\ IF aioserial_instance = None
       THEN \* None has no write_async
            /\ pc' = [pc EXCEPT ![p] = "idle"]
            /\ result' = [result EXCEPT ![p] = Finished(c, "AttributeError", <<>>)]
            /\ call' = [call EXCEPT ![p] = NoCall]
            /\ UNCHANGED lock
       ELSE /\ pc' = [pc EXCEPT ![p] = "writing"]
            /\ call' = [call EXCEPT ![p] = [c EXCEPT !.wh = aioserial_instance]]
            /\ lock' = p
            /\ UNCHANGED result
    /\ UNCHANGED <<aioserial_instance, handles>>

\* close(): lock acquired, ensure_open passed, the handle closed and forgotten
close(p, c) ==
    /\ c.op = "close"
    /\ ensure_open(aioserial_instance)
    /\ pc' = [pc EXCEPT ![p] = "idle"]
    /\ call' = [call EXCEPT ![p] = NoCall]
    /\ IF aioserial_instance = None
       THEN \* None has no close
            /\ result' = [result EXCEPT ![p] = Finished(c, "AttributeError", <<>>)]
            /\ UNCHANGED <<aioserial_instance, handles>>
       ELSE /\ handles' = aioserial_close(handles, aioserial_instance)
            /\ aioserial_instance' = None
            /\ result' = [result EXCEPT ![p] =
                    Finished([c EXCEPT !.wh = aioserial_instance], "ok", <<>>)]
    /\ UNCHANGED lock

\* from async with self._lock: to the first await inside it, or to the end of the
\* call when none is reached; no other task runs in between
locked_section(p, c) ==
    /\ acquired' = Append(acquired, [id |-> c.id, op |-> c.op, task |-> p])
    /\ \/ ensure_open_raises(p, c)
       \/ send_message(p, c)
       \/ close(p, c)
    /\ UNCHANGED <<wire, rx>>

\* send_command, send_query or close is called while the lock is free and nobody
\* waits for it: async with self._lock does not suspend
enter(p, o, size) ==
    /\ pc[p] = "idle"
    /\ ncalls < MaxCalls
    /\ lock_free
    /\ Waiting = {}
    /\ ncalls' = ncalls + 1
    /\ locked_section(p, [NoCall EXCEPT !.op = o, !.id = ncalls + 1, !.size = size])
    /\ UNCHANGED <<dsr_vars, run_vars>>

\* the call that waited longest is resumed with the lock
resume(p) ==
    /\ pc[p] = "waiting"
    /\ lock_free
    /\ FirstWaiter(p)
    /\ UNCHANGED ncalls
    /\ locked_section(p, call[p])
    /\ UNCHANGED <<dsr_vars, run_vars>>

\* write_async puts the next byte on the wire; the device answers a complete query
write_byte(p) ==
    /\ pc[p] = "writing"
    /\ call[p].nwritten < MsgLen
    /\ LET c == call[p]
           port == PortOf(c.wh)
           i == c.nwritten + 1
       IN /\ wire' = Append(wire, [id |-> c.id, i |-> i, port |-> port])
          /\ call' = [call EXCEPT ![p].nwritten = i]
          /\ rx' = IF i = MsgLen /\ c.op = "send_query"
                   THEN [rx EXCEPT ![port] = rx[port] \o Response(c.id, c.size)]
                   ELSE rx
    /\ UNCHANGED <<aioserial_instance, handles, lock, pc, result, acquired, ncalls>>
    /\ UNCHANGED <<dsr_vars, run_vars>>

write_fails_mut(p) ==
    /\ pc[p] = "writing"
    /\ call[p].nwritten < MsgLen
    /\ pc' = [pc EXCEPT ![p] = "idle"]
    /\ result' = [result EXCEPT ![p] = Finished(call[p], "SerialException", <<>>)]
    /\ call' = [call EXCEPT ![p] = NoCall]
    /\ UNCHANGED <<aioserial_instance, handles, lock, wire, rx, acquired, ncalls>>
    /\ UNCHANGED <<dsr_vars, run_vars>>

\* write_async raises before the message is complete; async with releases the lock
write_fails(p) ==
    /\ pc[p] = "writing"
    /\ call[p].nwritten < MsgLen
    /\ pc' = [pc EXCEPT ![p] = "idle"]
    /\ result' = [result EXCEPT ![p] = Finished(call[p], "SerialException", <<>>)]
    /\ call' = [call EXCEPT ![p] = NoCall]
    /\ lock' = 0
    /\ UNCHANGED <<aioserial_instance, handles, wire, rx, acquired, ncalls>>
    /\ UNCHANGED <<dsr_vars, run_vars>>

\* send_command: _send_message has returned, the lock is released
send_command_returns(p) ==
    /\ pc[p] = "writing"
    /\ call[p].op = "send_command"
    /\ call[p].nwritten = MsgLen
    /\ pc' = [pc EXCEPT ![p] = "idle"]
    /\ result' = [result EXCEPT ![p] = Finished(call[p], "ok", <<>>)]
    /\ call' = [call EXCEPT ![p] = NoCall]
    /\ lock' = 0
    /\ UNCHANGED <<aioserial_instance, handles, wire, rx, acquired, ncalls>>
    /\ UNCHANGED <<dsr_vars, run_vars>>

\* send_query: _send_message has returned, _receive_response awaits read_async
\* on the object self.aioserial_instance names now
receive_response(p) ==
    /\ pc[p] = "writing"
    /\ call[p].op = "send_query"
    /\ call[p].nwritten = MsgLen
    /\ IF aioserial_instance = None
       THEN \* None has no read_async
            /\ pc' = [pc EXCEPT ![p] = "idle"]
            /\ result' = [result EXCEPT ![p] = Finished(call[p], "AttributeError", <<>>)]
            /\ call' = [call EXCEPT ![p] = NoCall]
            /\ lock' = 0
       ELSE /\ pc' = [pc EXCEPT ![p] = "reading"]
            /\ call' = [call EXCEPT ![p].rh = aioserial_instance]
            /\ UNCHANGED <<lock, result>>
    /\ UNCHANGED <<aioserial_instance, handles, wire, rx, acquired, ncalls>>
    /\ UNCHANGED <<dsr_vars, run_vars>>

\* read_async(size) returns: the port held size bytes
read_returns(p) ==
    /\ pc[p] = "reading"
    /\ LET c == call[p]
           port == PortOf(c.rh)
           data == read_async(rx[port], c.size)
       IN /\ Len(rx[port]) >= c.size
          /\ rx' = [rx EXCEPT ![port] = SubSeq(rx[port], Len(data) + 1, Len(rx[port]))]
          /\ result' = [result EXCEPT ![p] = Finished(c, "ok", data)]
    /\ pc' = [pc EXCEPT ![p] = "idle"]
    /\ call' = [call EXCEPT ![p] = NoCall]
    /\ lock' = 0
    /\ UNCHANGED <<aioserial_instance, handles, wire, acquired, ncalls>>
    /\ UNCHANGED <<dsr_vars, run_vars>>

\* read_async raises: the port never supplied size bytes
read_fails(p) ==
    /\ pc[p] = "reading"
    /\ Len(rx[PortOf(call[p].rh)]) < call[p].size
    /\ pc' = [pc EXCEPT ![p] = "idle"]
    /\ result' = [result EXCEPT ![p] = Finished(call[p], "SerialException", <<>>)]
    /\ call' = [call EXCEPT ![p] = NoCall]
    /\ lock' = 0
    /\ UNCHANGED <<aioserial_instance, handles, wire, rx, acquired, ncalls>>
    /\ UNCHANGED <<dsr_vars, run_vars>>

\* the task of a suspended call is cancelled: CancelledError is raised at the await
\* the call is suspended in; inside async with self._lock that releases the lock,
\* in the wait for the lock the call leaves the queue without having acquired it
cancel(p) ==
    /\ pc[p] \in {"waiting", "writing", "reading"}
    /\ ncalls < MaxCalls
    /\ ncalls' = ncalls + 1
    /\ pc' = [pc EXCEPT ![p] = "idle"]
    /\ result' = [result EXCEPT ![p] = Finished(call[p], "CancelledError", <<>>)]
    /\ call' = [call EXCEPT ![p] = NoCall]
    /\ lock' = IF pc[p] = "waiting" THEN lock ELSE 0
    /\ UNCHANGED <<aioserial_instance, handles, wire, rx, acquired>>
    /\ UNCHANGED <<dsr_vars, run_vars>>

Operations ==
    {<<"send_command", 0>>, <<"close", 0>>} \cup
    {<<"send_query", size>> : size \in 1..MaxResponseSize}

SerialNext ==
    \E p \in Tasks :
        \/ \E port \in Ports : connect(p, port)
        \/ \E o \in Operations : wait(p, o[1], o[2])
        \/ \E o \in Operations : enter(p, o[1], o[2])
        \/ resume(p)
        \/ write_byte(p)
        \/ write_fails(p)
        \/ send_command_returns(p)
        \/ receive_response(p)
        \/ read_returns(p)
        \/ read_fails(p)

(* ======================================================================= *)
(* dsr.py: the attribute binder                                            *)
(* ======================================================================= *)

\* a dict without keys
EmptyDict == <<>>

\* an attribute without updater: attribute.updater is None
NoUpdater == [is_none |-> TRUE, update_period |-> [num |-> 0, den |-> 1]]

(* ------------------------------ inputs --------------------------------- *)

\* update_period in seconds, as a fraction: 0.5, 1.0, 2.5
UpdatePeriods == {[num |-> 1, den |-> 2], [num |-> 1, den |-> 1], [num |-> 5, den |-> 2]}

\* attribute.updater: None or an object with an update_period
Updaters == {NoUpdater} \cup {[is_none |-> FALSE, update_period |-> t] : t \in UpdatePeriods}

AttrClasses == {"AttrRW", "AttrR", "AttrW"}

\* attribute.datatype; String stands for every datatype dsr.py does not know
DataTypes == {[type |-> "Bool", prec |-> 0], [type |-> "Int", prec |-> 0],
              [type |-> "Float", prec |-> 2], [type |-> "String", prec |-> 0]}

\* every class with every updater as a Bool, and every datatype as a polled AttrRW
Attributes ==
    {a \in [cls : AttrClasses, datatype : DataTypes, updater : Updaters] :
        \/ a.datatype.type = "Bool"
        \/ a.cls = "AttrRW" /\ a.updater = [is_none |-> FALSE, update_period |-> [num |-> 1, den |-> 1]]}

\* attribute names, as sequences of characters: on_off, on_Off, f
AttrNames == {<<"o", "n", "_", "o", "f", "f">>, <<"o", "n", "_", "O", "f", "f">>, <<"f">>}

\* controller.path of the root controller and of its sub controller: "", "m1"
ControllerPaths == << <<>>, <<"m", "1">> >>

\* the items of single_mapping.attributes: attribute name and attribute
Items == [name : AttrNames, attribute : Attributes]

\* single_mapping.attributes of one controller with n items, in insertion order:
\* a dict, so the names are distinct
AttributeDicts(n) ==
    {d \in [1..n -> Items] : \A i, j \in 1..n : i # j => d[i].name # d[j].name}

\* the controller trees: root and sub controller, at most MaxAttrs attributes
IsMapping(m) ==
    \E n1 \in 0..MaxAttrs : \E n2 \in 0..(MaxAttrs - n1) :
        \E d1 \in AttributeDicts(n1), d2 \in AttributeDicts(n2) :
            m = <<[path |-> ControllerPaths[1], attributes |-> d1],
                  [path |-> ControllerPaths[2], attributes |-> d2]>>

\* the attribute objects of the tree, each known by its controller and name
AttrIds(m) ==
    UNION {{<<c, m[c].attributes[i].name>> : i \in DOMAIN m[c].attributes} : c \in DOMAIN m}

\* the attribute object a closure holds
AttributeOf(m, id) ==
    LET d == m[id[1]].attributes
    IN d[CHOOSE i \in DOMAIN d : d[i].name = id[2]].attribute

\* returned: <<>> when the call raised, else <<value>>; failure: the exception the
\* updater raised, <<>> when none
NoClosureCall == [fn |-> "none", name |-> <<>>, status |-> "none", returned |-> <<>>,
                  refreshed |-> FALSE, cached_before |-> 0, failure |-> <<>>]

DsrIdle ==
    /\ mapping = <<>>
    /\ stage = "idle"
    /\ ci = 1
    /\ ai = 1
    /\ collection = EmptyDict
    /\ error = <<>>
    /\ cached = <<>>
    /\ called = NoClosureCall

\* _collect_dev_attributes(mapping) is called on some controller tree
AttrInit ==
    /\ IsMapping(mapping)
    /\ stage = "collecting"
    /\ ci = 1
    /\ ai = 1
    /\ collection = EmptyDict
    /\ error = <<>>
    /\ cached = [id \in AttrIds(mapping) |-> 0]
    /\ called = NoClosureCall

(* ------------------------------ naming --------------------------------- *)

\* the letters the names and paths are written in
LowerCase == {"e", "f", "m", "n", "o", "p", "r", "s", "t"}
UpperCase == {"E", "F", "M", "N", "O", "P", "R", "S", "T"}

ToUpper(c) ==
    CASE c = "e" -> "E" [] c = "f" -> "F" [] c = "m" -> "M" [] c = "n" -> "N"
      [] c = "o" -> "O" [] c = "p" -> "P" [] c = "r" -> "R" [] c = "s" -> "S"
      [] c = "t" -> "T" [] OTHER -> c

ToLower(c) ==
    CASE c = "E" -> "e" [] c = "F" -> "f" [] c = "M" -> "m" [] c = "N" -> "n"
      [] c = "O" -> "o" [] c = "P" -> "p" [] c = "R" -> "r" [] c = "S" -> "s"
      [] c = "T" -> "t" [] OTHER -> c

IsCased(c) == c \in LowerCase \cup UpperCase

\* str.upper()
upper(str) == [i \in DOMAIN str |-> ToUpper(str[i])]

\* str.title(): a cased character is upper-cased after an uncased one (or at the
\* start) and lower-cased after a cased one
title(str) ==
    [i \in DOMAIN str |->
        IF i > 1 /\ IsCased(str[i - 1]) THEN ToLower(str[i]) ELSE ToUpper(str[i])]

\* str.replace("_", "")
replace_underscores(str) == SelectSeq(str, LAMBDA c : c # "_")

\* lines 67-68: the device-facing name of an attribute
d_attr_name(path, name) ==
    LET attr_name == replace_underscores(title(name))
    IN IF path # <<>> THEN upper(path) \o <<"_">> \o attr_name ELSE attr_name

(* --------------------------- type mapping ------------------------------ *)

Supported(datatype) == datatype.type \in {"Bool", "Int", "Float"}

\* _get_dtype_args for a datatype it knows
get_dtype_args(datatype) ==
    CASE datatype.type = "Bool" -> [dtype |-> "bool"]
      [] datatype.type = "Int" -> [dtype |-> "int"]
      [] datatype.type = "Float" -> [dtype |-> "float", format |-> <<"%.", datatype.prec>>]

(* -------------------------- the match statement ------------------------ *)

\* isinstance: AttrRW derives from AttrR and from AttrW
IsInstance(a, cls) == a.cls = cls \/ a.cls = "AttrRW"

\* int(x) of a non-negative fraction
int(x) == x.num \div x.den

Update_mut(dict, more) == dict @@ more
\* dict.update and item assignment: the keys of more override those of dict
Update(dict, more) == more @@ dict

\* lines 82-84 and 91-93: if attribute.updater is not None: instance["polling_period"] = ...
polling_period_mut(a) == EmptyDict
polling_period(a) ==
    IF ~a.updater.is_none
    THEN [polling_period |-> int(a.updater.update_period) * 1000]
    ELSE EmptyDict

\* _pick_updater_fget, _pick_updater_fset: the closure and what it captured
pick_updater(fn, id) == [fn |-> fn, attribute |-> id, controller |-> id[1]]

\* lines 73-99: what the match statement adds to instance
match_attribute_mut(a, id) ==
    CASE a.cls = "AttrRW" ->
            Update([fget |-> pick_updater("fget", id), fset |-> pick_updater("fset", id),
                    access |-> "READ_WRITE"],
                   polling_period(a))
      [] IsInstance(a, "AttrR") ->
            Update([fget |-> pick_updater("fget", id), access |-> "READ_WRITE"],
                   polling_period(a))
      [] IsInstance(a, "AttrW") ->
            [fset |-> pick_updater("fset", id), access |-> "WRITE"]
match_attribute(a, id) ==
    CASE a.cls = "AttrRW" ->
            Update([fget |-> pick_updater("fget", id), fset |-> pick_updater("fset", id),
                    access |-> "READ_WRITE"],
                   polling_period(a))
      [] IsInstance(a, "AttrR") ->
            Update([fget |-> pick_updater("fget", id), access |-> "READ"],
                   polling_period(a))
      [] IsInstance(a, "AttrW") ->
            [fset |-> pick_updater("fset", id), access |-> "WRITE"]

\* lines 70-101: server.attribute(**instance)
server_attribute(label, a, id) ==
    Update(Update([label |-> label], get_dtype_args(a.datatype)), match_attribute(a, id))


(* ------------------------------ actions -------------------------------- *)

\* one turn of the inner loop: the attribute is bound and stored under its name
collect_attribute ==
    /\ stage = "collecting"
    /\ ci <= Len(mapping)
    /\ ai <= Len(mapping[ci].attributes)
    /\ LET item == mapping[ci].attributes[ai]
           name == d_attr_name(mapping[ci].path, item.name)
       IN /\ Supported(item.attribute.datatype)
          /\ collection' = Update(collection,
                                  name :> server_attribute(name, item.attribute, <<ci, item.name>>))
    /\ ai' = ai + 1
    /\ UNCHANGED <<mapping, stage, ci, error, cached, called>>
    /\ UNCHANGED <<serial_vars, run_vars>>

unsupported_type_mut ==
    /\ stage = "collecting"
    /\ ci <= Len(mapping)
    /\ ai <= Len(mapping[ci].attributes)
    /\ ~Supported(mapping[ci].attributes[ai].attribute.datatype)
    /\ ai' = ai + 1
    /\ UNCHANGED <<mapping, stage, ci, collection, error, cached, called>>
    /\ UNCHANGED <<serial_vars, run_vars>>

\* _get_dtype_args raises on a datatype it does not know: the binder raises
unsupported_type ==
    /\ stage = "collecting"
    /\ ci <= Len(mapping)
    /\ ai <= Len(mapping[ci].attributes)
    /\ ~Supported(mapping[ci].attributes[ai].attribute.datatype)
    /\ stage' = "failed"
    /\ error' = <<"FastCSException", mapping[ci].attributes[ai].attribute.datatype.type>>
    /\ UNCHANGED <<mapping, ci, ai, collection, cached, called>>
    /\ UNCHANGED <<serial_vars, run_vars>>

\* the inner loop is done: the outer loop turns to the next controller
next_controller ==
    /\ stage = "collecting"
    /\ ci <= Len(mapping)
    /\ ai > Len(mapping[ci].attributes)
    /\ ci' = ci + 1
    /\ ai' = 1
    /\ UNCHANGED <<mapping, stage, collection, error, cached, called>>
    /\ UNCHANGED <<serial_vars, run_vars>>

\* return collection
collect_return ==
    /\ stage = "collecting"
    /\ ci > Len(mapping)
    /\ stage' = "assembled"
    /\ UNCHANGED <<mapping, ci, ai, collection, error, cached, called>>
    /\ UNCHANGED <<serial_vars, run_vars>>

\* attribute.get(): the cached value
attribute_get(values, id) == values[id]

\* updater.update(controller, attribute) stores the value read from the device
DeviceValue == 1
update(values, id) == [values EXCEPT ![id] = DeviceValue]

\* the external runtime calls a bound getter: fget(self)
fget(name) ==
    /\ stage = "assembled"
    /\ called.fn = "none"
    /\ "fget" \in DOMAIN collection[name]
    /\ LET id == collection[name].fget.attribute
           a == AttributeOf(mapping, id)
       IN IF a.updater.is_none
          THEN \* attribute.updater.update: None has no attribute update
               /\ called' = [fn |-> "fget", name |-> name, status |-> "AttributeError",
                             returned |-> <<>>, refreshed |-> FALSE,
                             cached_before |-> cached[id], failure |-> <<>>]
               /\ UNCHANGED cached
          ELSE /\ cached' = update(cached, id)
               /\ called' = [fn |-> "fget", name |-> name, status |-> "ok",
                             returned |-> <<attribute_get(cached', id)>>, refreshed |-> TRUE,
                             cached_before |-> cached[id], failure |-> <<>>]
    /\ UNCHANGED <<mapping, stage, ci, ai, collection, error>>
    /\ UNCHANGED <<serial_vars, run_vars>>

fget_update_raises_mut(name) ==
    /\ stage = "assembled"
    /\ called.fn = "none"
    /\ "fget" \in DOMAIN collection[name]
    /\ LET id == collection[name].fget.attribute
       IN /\ ~AttributeOf(mapping, id).updater.is_none
          /\ called' = [fn |-> "fget", name |-> name, status |-> "ok",
                        returned |-> <<attribute_get(cached, id)>>, refreshed |-> FALSE,
                        cached_before |-> cached[id], failure |-> <<"UpdateError">>]
    /\ UNCHANGED <<mapping, stage, ci, ai, collection, error, cached>>
    /\ UNCHANGED <<serial_vars, run_vars>>

\* fget(self) when updater.update raises
fget_update_raises(name) ==
    /\ stage = "assembled"
    /\ called.fn = "none"
    /\ "fget" \in DOMAIN collection[name]
    /\ LET id == collection[name].fget.attribute
       IN /\ ~AttributeOf(mapping, id).updater.is_none
          /\ called' = [fn |-> "fget", name |-> name, status |-> "UpdateError",
                        returned |-> <<>>, refreshed |-> FALSE,
                        cached_before |-> cached[id], failure |-> <<"UpdateError">>]
    /\ UNCHANGED <<mapping, stage, ci, ai, collection, error, cached>>
    /\ UNCHANGED <<serial_vars, run_vars>>

\* the external runtime calls a bound setter: fset(self, val)
fset(name, val) ==
    /\ stage = "assembled"
    /\ called.fn = "none"
    /\ "fset" \in DOMAIN collection[name]
    /\ LET id == collection[name].fset.attribute
           a == AttributeOf(mapping, id)
       IN called' = [fn |-> "fset", name |-> name,
                     status |-> IF a.updater.is_none THEN "AttributeError" ELSE "ok",
                     returned |-> IF a.updater.is_none THEN <<>> ELSE <<val>>,
                     refreshed |-> FALSE, cached_before |-> cached[id],
                     failure |-> <<>>]
    /\ UNCHANGED <<mapping, stage, ci, ai, collection, error, cached>>
    /\ UNCHANGED <<serial_vars, run_vars>>

\* fset(self, val) when updater.put raises
fset_put_raises(name, val) ==
    /\ stage = "assembled"
    /\ called.fn = "none"
    /\ "fset" \in DOMAIN collection[name]
    /\ LET id == collection[name].fset.attribute
       IN /\ ~AttributeOf(mapping, id).updater.is_none
          /\ called' = [fn |-> "fset", name |-> name, status |-> "PutError",
                        returned |-> <<>>, refreshed |-> FALSE,
                        cached_before |-> cached[id], failure |-> <<"PutError">>]
    /\ UNCHANGED <<mapping, stage, ci, ai, collection, error, cached>>
    /\ UNCHANGED <<serial_vars, run_vars>>

AttrNext ==
    \/ collect_attribute
    \/ unsupported_type
    \/ next_controller
    \/ collect_return
    \/ \E name \in DOMAIN collection : fget(name)
    \/ \E name \in DOMAIN collection : fget_update_raises(name)
    \/ \E name \in DOMAIN collection : fset(name, DeviceValue + 1)
    \/ \E name \in DOMAIN collection : fset_put_raises(name, DeviceValue + 1)

(* ======================================================================= *)
(* dsr.py: TangoDSR.run                                                    *)
(* ======================================================================= *)

(* ------------------------------ inputs --------------------------------- *)

\* the attributes of the trees run() is followed on: a polled read-write Bool and
\* a polled read-write String
RunAttributes ==
    {a \in Attributes :
        /\ a.cls = "AttrRW"
        /\ a.datatype.type \in {"Bool", "String"}
        /\ a.updater = [is_none |-> FALSE, update_period |-> [num |-> 1, den |-> 1]]}

RunItems == [name : AttrNames, attribute : RunAttributes]

RunAttributeDicts(n) ==
    {d \in [1..n -> RunItems] : \A i, j \in 1..n : i # j => d[i].name # d[j].name}

\* the controller trees run() is followed on
IsRunMapping(m) ==
    \E n1 \in 0..MaxAttrs : \E n2 \in 0..(MaxAttrs - n1) :
        \E d1 \in RunAttributeDicts(n1), d2 \in RunAttributeDicts(n2) :
            m = <<[path |-> ControllerPaths[1], attributes |-> d1],
                  [path |-> ControllerPaths[2], attributes |-> d2]>>

\* command names: on_off, f
CmdNames == {<<"o", "n", "_", "o", "f", "f">>, <<"f">>}

\* method.fn of a command method
Methods == {"fn"}

\* the items of single_mapping.command_methods: method name and method
CmdItems == [name : CmdNames, fn : Methods]

\* single_mapping.command_methods of one controller with n items
CommandDicts(n) ==
    {d \in [1..n -> CmdItems] : \A i, j \in 1..n : i # j => d[i].name # d[j].name}

\* the command methods of root and sub controller, at most MaxCmds in all
IsCommands(cs) ==
    \E n1 \in 0..MaxCmds : \E n2 \in 0..(MaxCmds - n1) :
        \E d1 \in CommandDicts(n1), d2 \in CommandDicts(n2) : cs = <<d1, d2>>

\* TangoDSROptions(): the defaults of lines 21-24
TangoDSROptions ==
    [dev_name |-> "MY/DEVICE/NAME", dev_class |-> "FAST_CS_DEVICE",
     dsr_instance |-> "MY_SERVER_INSTANCE", debug |-> FALSE]

\* the options run() is called with: None, or the defaults with debug set
OptionsArgs == {<<>>, <<[TangoDSROptions EXCEPT !.debug = TRUE]>>}

DevNames == {"MY/DEVICE/NAME", "OTHER/DEVICE/NAME"}
DevClasses == {"FAST_CS_DEVICE", "OTHER_CLASS"}
DsrInstances == {"MY_SERVER_INSTANCE", "OTHER_INSTANCE"}

\* f"{dev_class}/{dsr_instance}"
dsr_name(dev_class, dsr_instance) == <<dev_class, "/", dsr_instance>>

\* a record of the database, as get_device_info shows it
DbDevInfo(dev_name, dev_class, server) ==
    [name |-> dev_name, class_name |-> dev_class, ds_full_name |-> server]

\* the database before the program runs: empty, or holding a record of another
\* server under either device name
Databases ==
    {<<>>} \cup {<<DbDevInfo(n, "OTHER_CLASS", dsr_name("OTHER_CLASS", "OTHER_INSTANCE"))>> :
                    n \in DevNames}

\* nothing to name, nothing named: an absent name is <<>>, a name made is <<name>>
NoSubject == [path |-> <<>>, name |-> <<>>]
NoNames == [attribute |-> <<>>, command |-> <<>>]

NoArgs == [dev_name |-> "", dev_class |-> "", dsr_instance |-> ""]

\* failure: the exception the method raised, <<>> when none
NoCommandCall == [name |-> <<>>, status |-> "none", returned |-> <<>>,
                  controller |-> 0, fn |-> "", failure |-> <<>>]

\* run() not called, register_dev not called, no device created
RunIdle ==
    /\ commands = <<>>
    /\ run_pc = "idle"
    /\ run_raised = <<>>
    /\ li = 1
    /\ put_linked = <<>>
    /\ sender_linked = <<>>
    /\ cci = 1
    /\ cai = 1
    /\ cmd_collection = EmptyDict
    /\ class_body = EmptyDict
    /\ options = TangoDSROptions
    /\ reg_pc = "idle"
    /\ reg_args = NoArgs
    /\ reg_raised = <<>>
    /\ read_dev_info = <<>>
    /\ nregs = 0
    /\ served = <<>>
    /\ init_pc = "none"
    /\ init_trace = <<>>
    /\ init_raised = <<>>
    /\ dev_state = "UNKNOWN"
    /\ cmd_called = NoCommandCall
    /\ invoked = <<>>

\* no name is being transformed on its own
NamingIdle ==
    /\ subject = NoSubject
    /\ named = NoNames

\* TangoDSR(mapping) constructed over some controller tree, run() not yet called
RunInit ==
    /\ IsRunMapping(mapping)
    /\ IsCommands(commands)
    /\ db \in Databases
    /\ stage = "idle"
    /\ ci = 1
    /\ ai = 1
    /\ collection = EmptyDict
    /\ error = <<>>
    /\ cached = [id \in AttrIds(mapping) |-> 0]
    /\ called = NoClosureCall
    /\ run_pc = "idle"
    /\ run_raised = <<>>
    /\ li = 1
    /\ put_linked = [c \in DOMAIN mapping |-> 0]
    /\ sender_linked = [c \in DOMAIN mapping |-> 0]
    /\ cci = 1
    /\ cai = 1
    /\ cmd_collection = EmptyDict
    /\ class_body = EmptyDict
    /\ options = TangoDSROptions
    /\ reg_pc = "idle"
    /\ reg_args = NoArgs
    /\ reg_raised = <<>>
    /\ read_dev_info = <<>>
    /\ nregs = 0
    /\ served = <<>>
    /\ init_pc = "none"
    /\ init_trace = <<>>
    /\ init_raised = <<>>
    /\ dev_state = "UNKNOWN"
    /\ cmd_called = NoCommandCall
    /\ invoked = [c \in DOMAIN mapping |-> 0]
    /\ subject = NoSubject
    /\ named = NoNames

(* ------------------------- run: linking -------------------------------- *)

\* run(options): lines 171-174, up to the call of _link_process_tasks
run(o) ==
    /\ run_pc = "idle"
    /\ options' = IF o = <<>> THEN TangoDSROptions ELSE o[1]
    /\ run_pc' = "link"
    /\ UNCHANGED <<commands, run_raised, class_body, link_vars, cmd_vars, reg_vars,
                   device_vars>>
    /\ UNCHANGED <<serial_vars, dsr_vars, naming_vars>>

\* run() raises exc to its caller from the statement it is at
raise(exc) ==
    /\ run_raised' = exc
    /\ UNCHANGED run_pc

\* one turn of the loop of _link_process_tasks: both link operations on one controller
link_controller ==
    /\ run_pc = "link"
    /\ run_raised = <<>>
    /\ li <= Len(mapping)
    /\ put_linked' = [put_linked EXCEPT ![li] = @ + 1]
    /\ sender_linked' = [sender_linked EXCEPT ![li] = @ + 1]
    /\ li' = li + 1
    /\ UNCHANGED <<commands, run_pc, run_raised, class_body, options, cmd_vars, reg_vars,
                   device_vars>>
    /\ UNCHANGED <<serial_vars, dsr_vars, naming_vars>>

\* _link_single_controller_put_tasks or _link_attribute_sender_class raises
link_raises(second) ==
    /\ run_pc = "link"
    /\ run_raised = <<>>
    /\ li <= Len(mapping)
    /\ put_linked' = [put_linked EXCEPT ![li] = @ + 1]
    /\ sender_linked' = IF second THEN [sender_linked EXCEPT ![li] = @ + 1]
                        ELSE sender_linked
    /\ raise(<<"LinkError">>)
    /\ UNCHANGED <<commands, class_body, options, li, cmd_vars, reg_vars, device_vars>>
    /\ UNCHANGED <<serial_vars, dsr_vars, naming_vars>>

link_return_mut ==
    /\ run_pc = "link"
    /\ run_raised = <<>>
    /\ li > 1
    /\ run_pc' = "attributes"
    /\ stage' = "collecting"
    /\ UNCHANGED <<mapping, ci, ai, collection, error, cached, called>>
    /\ UNCHANGED <<commands, run_raised, class_body, options, link_vars, cmd_vars,
                   reg_vars, device_vars, naming_vars>>
    /\ UNCHANGED serial_vars

\* _link_process_tasks has returned: line 176 calls _collect_dev_attributes
link_return ==
    /\ run_pc = "link"
    /\ run_raised = <<>>
    /\ li > Len(mapping)
    /\ run_pc' = "attributes"
    /\ stage' = "collecting"
    /\ UNCHANGED <<mapping, ci, ai, collection, error, cached, called>>
    /\ UNCHANGED <<commands, run_raised, class_body, options, link_vars, cmd_vars,
                   reg_vars, device_vars, naming_vars>>
    /\ UNCHANGED serial_vars

(* ------------------------- run: binding -------------------------------- *)

\* _collect_dev_attributes has returned: line 177 calls _collect_dev_commands
attributes_return ==
    /\ run_pc = "attributes"
    /\ stage = "assembled"
    /\ run_pc' = "commands"
    /\ UNCHANGED <<commands, run_raised, class_body, options, link_vars, cmd_vars,
                   reg_vars, device_vars>>
    /\ UNCHANGED <<serial_vars, dsr_vars, naming_vars>>

\* _collect_dev_attributes has raised: run() does not catch it
attributes_raises ==
    /\ run_pc = "attributes"
    /\ stage = "failed"
    /\ run_raised = <<>>
    /\ raise(error)
    /\ UNCHANGED <<commands, class_body, options, link_vars, cmd_vars, reg_vars,
                   device_vars>>
    /\ UNCHANGED <<serial_vars, dsr_vars, naming_vars>>

d_cmd_name_mut(path, name) ==
    LET cmd_name == replace_underscores(title(name))
    IN IF path # <<>> THEN (path \o <<"_">>) \o cmd_name ELSE cmd_name

\* lines 124-125: the device-facing name of a command
d_cmd_name(path, name) ==
    LET cmd_name == replace_underscores(title(name))
    IN IF path # <<>> THEN (upper(path) \o <<"_">>) \o cmd_name ELSE cmd_name

\* _pick_command_f: the wrapper and what it captured
pick_command_f(method_name, method, controller) ==
    [fn |-> "_dynamic_f", name |-> method_name, method |-> method,
     controller |-> controller]

\* server.command(**instance)
server_command(f) == [f |-> f]

\* _collect_dev_commands: one turn of the inner loop
collect_command ==
    /\ run_pc = "commands"
    /\ cci <= Len(commands)
    /\ cai <= Len(commands[cci])
    /\ LET item == commands[cci][cai]
           name == d_cmd_name(mapping[cci].path, item.name)
       IN cmd_collection' =
              Update(cmd_collection,
                     name :> server_command(pick_command_f(name, item.fn, cci)))
    /\ cai' = cai + 1
    /\ UNCHANGED <<commands, run_pc, run_raised, class_body, options, link_vars, cci,
                   reg_vars, device_vars>>
    /\ UNCHANGED <<serial_vars, dsr_vars, naming_vars>>

\* _collect_dev_commands: the outer loop turns to the next controller
next_command_controller ==
    /\ run_pc = "commands"
    /\ cci <= Len(commands)
    /\ cai > Len(commands[cci])
    /\ cci' = cci + 1
    /\ cai' = 1
    /\ UNCHANGED <<commands, run_pc, run_raised, class_body, options, link_vars,
                   cmd_collection, reg_vars, device_vars>>
    /\ UNCHANGED <<serial_vars, dsr_vars, naming_vars>>

\* _collect_dev_init
collect_dev_init == <<"init_device">> :> [fn |-> "init_device", controller |-> 1]

\* _collect_dev_helpers
collect_dev_helpers == <<"green_mode">> :> [green_mode |-> "Asyncio"]

\* lines 182-188: {**dev_attributes, **dev_commands, **dev_properties, **dev_init,
\* **dev_helpers}
merge(dev_attributes, dev_commands, dev_properties, dev_init, dev_helpers) ==
    Update(Update(Update(Update(dev_attributes, dev_commands), dev_properties),
                  dev_init), dev_helpers)

\* _collect_dev_commands has returned: lines 178-191 build the device class
build_class ==
    /\ run_pc = "commands"
    /\ cci > Len(commands)
    /\ class_body' = merge(collection, cmd_collection, EmptyDict, collect_dev_init,
                           collect_dev_helpers)
    /\ run_pc' = "register"
    /\ UNCHANGED <<commands, run_raised, options, link_vars, cmd_vars, reg_vars,
                   device_vars>>
    /\ UNCHANGED <<serial_vars, dsr_vars, naming_vars>>

(* ------------------------- register_dev -------------------------------- *)

\* db.delete_device(dev_name): removes the records of that name, if any
db_delete_device(d, dev_name) == SelectSeq(d, LAMBDA r : r.name # dev_name)

\* db.add_device(dev_info)
db_add_device(d, dev_info) == Append(d, dev_info)

\* the database holds a record of that name
HasDevice(d, dev_name) == \E k \in DOMAIN d : d[k].name = dev_name

\* db.get_device_info(dev_name)
db_get_device_info(d, dev_name) == d[CHOOSE k \in DOMAIN d : d[k].name = dev_name]

\* lines 202-209: register_dev is entered and dev_info is filled in
register_dev(dev_name, dev_class, dsr_instance) ==
    /\ reg_pc \in {"idle", "returned", "raised"}
    /\ reg_args' = [dev_name |-> dev_name, dev_class |-> dev_class,
                    dsr_instance |-> dsr_instance]
    /\ reg_pc' = "delete"
    /\ reg_raised' = <<>>
    /\ read_dev_info' = <<>>
    /\ nregs' = nregs + 1
    /\ UNCHANGED db

delete_device_mut ==
    /\ reg_pc = "delete"
    /\ reg_pc' = "add"
    /\ UNCHANGED <<db, reg_args, reg_raised, read_dev_info, nregs>>
    /\ UNCHANGED <<commands, run_pc, run_raised, class_body, options, link_vars, cmd_vars,
                   device_vars>>
    /\ UNCHANGED <<serial_vars, dsr_vars, naming_vars>>

\* line 210
delete_device ==
    /\ reg_pc = "delete"
    /\ db' = db_delete_device(db, reg_args.dev_name)
    /\ reg_pc' = "add"
    /\ UNCHANGED <<reg_args, reg_raised, read_dev_info, nregs>>
    /\ UNCHANGED <<commands, run_pc, run_raised, class_body, options, link_vars, cmd_vars,
                   device_vars>>
    /\ UNCHANGED <<serial_vars, dsr_vars, naming_vars>>

\* line 211
add_device ==
    /\ reg_pc = "add"
    /\ db' = db_add_device(db, DbDevInfo(reg_args.dev_name, reg_args.dev_class,
                                         dsr_name(reg_args.dev_class, reg_args.dsr_instance)))
    /\ reg_pc' = "get"
    /\ UNCHANGED <<reg_args, reg_raised, read_dev_info, nregs>>
    /\ UNCHANGED <<commands, run_pc, run_raised, class_body, options, link_vars, cmd_vars,
                   device_vars>>
    /\ UNCHANGED <<serial_vars, dsr_vars, naming_vars>>

\* lines 213-218: the record is read back and printed; register_dev returns
get_device_info ==
    /\ reg_pc = "get"
    /\ IF HasDevice(db, reg_args.dev_name)
       THEN /\ read_dev_info' = <<db_get_device_info(db, reg_args.dev_name)>>
            /\ reg_pc' = "returned"
            /\ UNCHANGED reg_raised
       ELSE /\ reg_pc' = "raised"
            /\ reg_raised' = <<"DevFailed", "get_device_info">>
            /\ UNCHANGED read_dev_info
    /\ UNCHANGED <<db, reg_args, nregs>>
    /\ UNCHANGED <<commands, run_pc, run_raised, class_body, options, link_vars, cmd_vars,
                   device_vars>>
    /\ UNCHANGED <<serial_vars, dsr_vars, naming_vars>>

\* the database service fails the request register_dev is at: register_dev raises
database_fails ==
    /\ reg_pc \in {"delete", "add", "get"}
    /\ reg_raised' = <<"DevFailed", reg_pc>>
    /\ reg_pc' = "raised"
    /\ UNCHANGED <<db, reg_args, read_dev_info, nregs>>
    /\ UNCHANGED <<commands, run_pc, run_raised, class_body, options, link_vars, cmd_vars,
                   device_vars>>
    /\ UNCHANGED <<serial_vars, dsr_vars, naming_vars>>

\* register_dev called on its own
call_register_dev(dev_name, dev_class, dsr_instance) ==
    /\ run_pc = "idle"
    /\ nregs < MaxRegs
    /\ register_dev(dev_name, dev_class, dsr_instance)
    /\ UNCHANGED <<commands, run_pc, run_raised, class_body, options, link_vars, cmd_vars,
                   device_vars>>
    /\ UNCHANGED <<serial_vars, dsr_vars, naming_vars>>

(* ------------------------- run: registration and start ----------------- *)

\* line 192
run_register_dev ==
    /\ run_pc = "register"
    /\ run_raised = <<>>
    /\ reg_pc = "idle"
    /\ register_dev(options.dev_name, options.dev_class, options.dsr_instance)
    /\ UNCHANGED <<commands, run_pc, run_raised, class_body, options, link_vars, cmd_vars,
                   device_vars>>
    /\ UNCHANGED <<serial_vars, dsr_vars, naming_vars>>

register_raises_mut ==
    /\ run_pc = "register"
    /\ run_raised = <<>>
    /\ reg_pc = "raised"
    /\ run_pc' = "server_run"
    /\ UNCHANGED <<commands, run_raised, class_body, options, link_vars, cmd_vars,
                   reg_vars, device_vars>>
    /\ UNCHANGED <<serial_vars, dsr_vars, naming_vars>>

\* register_dev has raised: run() does not catch it
register_raises ==
    /\ run_pc = "register"
    /\ run_raised = <<>>
    /\ reg_pc = "raised"
    /\ raise(reg_raised)
    /\ UNCHANGED <<commands, class_body, options, link_vars, cmd_vars, reg_vars,
                   device_vars>>
    /\ UNCHANGED <<serial_vars, dsr_vars, naming_vars>>

\* register_dev has returned: line 194
register_return ==
    /\ run_pc = "register"
    /\ reg_pc = "returned"
    /\ run_pc' = "server_run"
    /\ UNCHANGED <<commands, run_raised, class_body, options, link_vars, cmd_vars,
                   reg_vars, device_vars>>
    /\ UNCHANGED <<serial_vars, dsr_vars, naming_vars>>

\* _collect_dsr_args
collect_dsr_args(o) == IF o.debug THEN <<"-v4">> ELSE <<>>

\* lines 194-199: server.run((pytango_class,), [dev_class, dsr_instance, *dsr_args])
server_run ==
    /\ run_pc = "server_run"
    /\ run_raised = <<>>
    /\ served' = <<options.dev_class, options.dsr_instance>> \o collect_dsr_args(options)
    /\ run_pc' = "running"
    /\ UNCHANGED <<init_pc, init_trace, init_raised, dev_state, cmd_called, invoked>>
    /\ UNCHANGED <<commands, run_raised, class_body, options, link_vars, cmd_vars,
                   reg_vars>>
    /\ UNCHANGED <<serial_vars, dsr_vars, naming_vars>>

(* ------------------------- the device at run time ---------------------- *)

\* the runtime creates the device and calls the init_device of the class body:
\* line 137 awaits the base initialization
init_device ==
    /\ run_pc = "running"
    /\ run_raised = <<>>
    /\ init_pc = "none"
    /\ class_body[<<"init_device">>] = collect_dev_init[<<"init_device">>]
    /\ init_pc' = "base"
    /\ init_trace' = Append(init_trace, "Device.init_device")
    /\ UNCHANGED <<served, init_raised, dev_state, cmd_called, invoked>>
    /\ UNCHANGED <<commands, run_pc, run_raised, class_body, options, link_vars, cmd_vars,
                   reg_vars>>
    /\ UNCHANGED <<serial_vars, dsr_vars, naming_vars>>

\* server.Device.init_device returns: lines 138-139 set the state and await connect()
base_init_returns ==
    /\ init_pc = "base"
    /\ dev_state' = "ON"
    /\ init_trace' = init_trace \o <<"set_state", "connect">>
    /\ init_pc' = "connect"
    /\ UNCHANGED <<served, init_raised, cmd_called, invoked>>
    /\ UNCHANGED <<commands, run_pc, run_raised, class_body, options, link_vars, cmd_vars,
                   reg_vars>>
    /\ UNCHANGED <<serial_vars, dsr_vars, naming_vars>>

\* server.Device.init_device raises
base_init_raises ==
    /\ init_pc = "base"
    /\ init_pc' = "raised"
    /\ init_raised' = <<"BaseInitError">>
    /\ init_trace' = Append(init_trace, "Device.init_device raises")
    /\ UNCHANGED <<served, dev_state, cmd_called, invoked>>
    /\ UNCHANGED <<commands, run_pc, run_raised, class_body, options, link_vars, cmd_vars,
                   reg_vars>>
    /\ UNCHANGED <<serial_vars, dsr_vars, naming_vars>>

\* mapping.controller.connect() returns, and with it init_device
controller_connect_returns ==
    /\ init_pc = "connect"
    /\ init_pc' = "done"
    /\ init_trace' = Append(init_trace, "connect returns")
    /\ UNCHANGED <<served, init_raised, dev_state, cmd_called, invoked>>
    /\ UNCHANGED <<commands, run_pc, run_raised, class_body, options, link_vars, cmd_vars,
                   reg_vars>>
    /\ UNCHANGED <<serial_vars, dsr_vars, naming_vars>>

controller_connect_raises_mut ==
    /\ init_pc = "connect"
    /\ init_pc' = "done"
    /\ init_trace' = Append(init_trace, "connect raises")
    /\ UNCHANGED <<served, init_raised, dev_state, cmd_called, invoked>>
    /\ UNCHANGED <<commands, run_pc, run_raised, class_body, options, link_vars, cmd_vars,
                   reg_vars>>
    /\ UNCHANGED <<serial_vars, dsr_vars, naming_vars>>

\* mapping.controller.connect() raises
controller_connect_raises ==
    /\ init_pc = "connect"
    /\ init_raised' = <<"ConnectError">>
    /\ init_pc' = "raised"
    /\ init_trace' = Append(init_trace, "connect raises")
    /\ UNCHANGED <<served, dev_state, cmd_called, invoked>>
    /\ UNCHANGED <<commands, run_pc, run_raised, class_body, options, link_vars, cmd_vars,
                   reg_vars>>
    /\ UNCHANGED <<serial_vars, dsr_vars, naming_vars>>

\* the device serves requests: init_device has ended
Serving == run_pc = "running" /\ run_raised = <<>> /\ init_pc \in {"done", "raised"}

\* the class body holds under name the field of an attribute
IsAttributeField(name) ==
    /\ name \in DOMAIN class_body
    /\ name \in DOMAIN collection
    /\ class_body[name] = collection[name]

\* a remote read of an attribute calls the fget of its field
read_attribute(name) ==
    /\ Serving
    /\ IsAttributeField(name)
    /\ fget(name)

read_attribute_update_raises(name) ==
    /\ Serving
    /\ IsAttributeField(name)
    /\ fget_update_raises(name)

\* a remote write of an attribute calls the fset of its field
write_attribute(name, val) ==
    /\ Serving
    /\ IsAttributeField(name)
    /\ fset(name, val)

write_attribute_put_raises(name, val) ==
    /\ Serving
    /\ IsAttributeField(name)
    /\ fset_put_raises(name, val)

\* what the method returns when called on a controller
MethodResult(method, controller) == <<method, controller>>

\* line 111: MethodType(method, controller)() is called
invoke(counts, controller) == [counts EXCEPT ![controller] = @ + 1]

\* a remote command calls the wrapper of its field: _dynamic_f(self)
dynamic_f(name) ==
    /\ Serving
    /\ cmd_called.status = "none"
    /\ name \in DOMAIN class_body
    /\ "f" \in DOMAIN class_body[name]
    /\ LET f == class_body[name].f
       IN /\ invoked' = invoke(invoked, f.controller)
          /\ cmd_called' = [name |-> name, status |-> "ok",
                            returned |-> <<MethodResult(f.method, f.controller)>>,
                            controller |-> f.controller, fn |-> f.method,
                            failure |-> <<>>]
    /\ UNCHANGED <<served, init_pc, init_trace, init_raised, dev_state>>
    /\ UNCHANGED <<commands, run_pc, run_raised, class_body, options, link_vars, cmd_vars,
                   reg_vars>>
    /\ UNCHANGED <<serial_vars, dsr_vars, naming_vars>>

\* _dynamic_f(self) when the method raises
dynamic_f_raises(name) ==
    /\ Serving
    /\ cmd_called.status = "none"
    /\ name \in DOMAIN class_body
    /\ "f" \in DOMAIN class_body[name]
    /\ LET f == class_body[name].f
       IN /\ invoked' = invoke(invoked, f.controller)
          /\ cmd_called' = [name |-> name, status |-> "CommandError",
                            returned |-> <<>>,
                            controller |-> f.controller, fn |-> f.method,
                            failure |-> <<"CommandError">>]
    /\ UNCHANGED <<served, init_pc, init_trace, init_raised, dev_state>>
    /\ UNCHANGED <<commands, run_pc, run_raised, class_body, options, link_vars, cmd_vars,
                   reg_vars>>
    /\ UNCHANGED <<serial_vars, dsr_vars, naming_vars>>

RunNext ==
    \/ \E o \in OptionsArgs : run(o)
    \/ link_controller
    \/ \E second \in BOOLEAN : link_raises(second)
    \/ link_return
    \/ collect_attribute
    \/ unsupported_type
    \/ next_controller
    \/ collect_return
    \/ attributes_return
    \/ attributes_raises
    \/ collect_command
    \/ next_command_controller
    \/ build_class
    \/ run_register_dev
    \/ delete_device
    \/ add_device
    \/ get_device_info
    \/ database_fails
    \/ register_raises
    \/ register_return
    \/ server_run
    \/ init_device
    \/ base_init_returns
    \/ base_init_raises
    \/ controller_connect_returns
    \/ controller_connect_raises
    \/ \E name \in DOMAIN class_body : read_attribute(name)
    \/ \E name \in DOMAIN class_body : read_attribute_update_raises(name)
    \/ \E name \in DOMAIN class_body : write_attribute(name, DeviceValue + 1)
    \/ \E name \in DOMAIN class_body : write_attribute_put_raises(name, DeviceValue + 1)
    \/ \E name \in DOMAIN class_body : dynamic_f(name)
    \/ \E name \in DOMAIN class_body : dynamic_f_raises(name)

RegNext ==
    \/ \E n \in DevNames, c \in DevClasses, i \in DsrInstances : call_register_dev(n, c, i)
    \/ delete_device
    \/ add_device
    \/ get_device_info
    \/ database_fails

(* ------------------------- naming on its own --------------------------- *)

\* the characters names are drawn from: a lower-case and an upper-case letter, the
\* separator and a digit
NameAlphabet == {"t", "S", "_", "1"}

\* the names: every string of at most MaxNameLen characters, and temp_sp
Names ==
    UNION {[1..n -> NameAlphabet] : n \in 0..MaxNameLen}
        \cup {<<"t", "e", "m", "p", "_", "s", "p">>}

\* controller paths: "", "m1", "motor1"
Paths == {<<>>, <<"m", "1">>, <<"m", "o", "t", "o", "r", "1">>}

NamingInit ==
    /\ subject \in [path : Paths, name : Names]
    /\ named = NoNames

\* lines 67-68 applied to the subject as the name of an attribute
name_attribute ==
    /\ named.attribute = <<>>
    /\ named' = [named EXCEPT !.attribute = <<d_attr_name(subject.path, subject.name)>>]
    /\ UNCHANGED subject
    /\ UNCHANGED <<commands, run_pc, run_raised, class_body, options, link_vars, cmd_vars,
                   reg_vars, device_vars>>
    /\ UNCHANGED <<serial_vars, dsr_vars>>

\* lines 124-125 applied to the subject as the name of a command
name_command ==
    /\ named.command = <<>>
    /\ named' = [named EXCEPT !.command = <<d_cmd_name(subject.path, subject.name)>>]
    /\ UNCHANGED subject
    /\ UNCHANGED <<commands, run_pc, run_raised, class_body, options, link_vars, cmd_vars,
                   reg_vars, device_vars>>
    /\ UNCHANGED <<serial_vars, dsr_vars>>

NamingNext ==
    \/ name_attribute
    \/ name_command

(* --------------------------- specifications ---------------------------- *)

vars == <<serial_vars, dsr_vars, run_vars>>

\* the serial transport
Init == SerialInit /\ DsrIdle /\ RunIdle /\ NamingIdle /\ db = <<>>

Next == SerialNext

Spec == Init /\ [][Next]_vars

\* the serial transport when the tasks of suspended calls may be cancelled
NextCancel ==
    \/ SerialNext
    \/ \E p \in Tasks : cancel(p)

SpecCancel == Init /\ [][NextCancel]_vars

\* the I/O a call is suspended in returns or fails
io_ends(p) ==
    \/ write_byte(p)
    \/ write_fails(p)
    \/ send_command_returns(p)
    \/ receive_response(p)
    \/ read_returns(p)
    \/ read_fails(p)

\* the calls on a connection, cancellation included; the ports are
\* interchangeable, so the first connect of a behaviour opens port 1
NextFair ==
    \E p \in Tasks :
        \/ \E port \in IF handles = <<>> THEN {1} ELSE Ports : connect(p, port)
        \/ \E o \in Operations : wait(p, o[1], o[2])
        \/ \E o \in Operations : enter(p, o[1], o[2])
        \/ resume(p)
        \/ io_ends(p)
        \/ cancel(p)

\* every in-flight I/O ends, and the event loop runs the call the lock woke
SpecFair ==
    /\ Init
    /\ [][NextFair]_vars
    /\ \A p \in Tasks : WF_vars(io_ends(p)) /\ WF_vars(resume(p))

\* the attribute binder
InitAttr == SerialInit /\ AttrInit /\ RunIdle /\ NamingIdle /\ db = <<>>

NextAttr == AttrNext

SpecAttr == InitAttr /\ [][NextAttr]_vars

\* TangoDSR.run and the device it serves
InitRun == SerialInit /\ RunInit

NextRun == RunNext

SpecRun == InitRun /\ [][NextRun]_vars

\* register_dev called repeatedly
InitReg == SerialInit /\ DsrIdle /\ RunIdle /\ NamingIdle /\ db \in Databases

NextReg == RegNext

SpecReg == InitReg /\ [][NextReg]_vars

\* the naming transform on its own
InitName == SerialInit /\ DsrIdle /\ RunIdle /\ db = <<>> /\ NamingInit

NextName == NamingNext

SpecName == InitName /\ [][NextName]_vars

(* ------------------------ serial transport claims ---------------------- *)

InCriticalSection(p) == pc[p] \in {"writing", "reading"}

\* position of a call in the order of lock acquisition (0: it never acquired)
AcquiredAt(id) ==
    IF \E k \in DOMAIN acquired : acquired[k].id = id
    THEN CHOOSE k \in DOMAIN acquired : acquired[k].id = id
    ELSE 0

\* the call that acquires the lock in this step
Entering == acquired'[Len(acquired')]

MutualExclusion ==
    \A p, q \in Tasks :
        /\ InCriticalSection(p) => lock = p
        /\ InCriticalSection(p) /\ InCriticalSection(q) => p = q

WriteOrder ==
    \A j, k \in DOMAIN wire :
        j < k =>
            /\ AcquiredAt(wire[j].id) > 0
            /\ AcquiredAt(wire[j].id) <= AcquiredAt(wire[k].id)
            /\ wire[j].id = wire[k].id => wire[j].i < wire[k].i

\* while a send_query is between its first write and the end of its read, every
\* byte written, every byte read and every close is its own
NoForeignIO ==
    \A p \in Tasks :
        InCriticalSection(p) /\ call[p].op = "send_query" =>
            /\ wire' # wire => /\ Len(wire') = Len(wire) + 1
                               /\ wire'[Len(wire')].id = call[p].id
            /\ \A q \in Ports : Len(rx'[q]) < Len(rx[q]) => pc[p] = "reading" /\ pc'[p] = "idle"
            /\ \A h \in DOMAIN handles : handles'[h].is_open = handles[h].is_open
            /\ acquired' = acquired

\* C1: the critical sections of send_command, send_query and close never overlap:
\* at most one call is between acquiring and releasing the lock, nothing else
\* writes, reads or closes while a send_query is in progress, and the bytes reach
\* the wire whole and in the order in which the calls acquired the lock.
C1_CriticalSectionsNeverOverlap ==
    /\ [](MutualExclusion /\ WriteOrder)
    /\ [][NoForeignIO]_vars

\* a send_query has written its message and is reading its response while
\* another call waits for the lock
C1_Witness ==
    \E p, q \in Tasks :
        /\ pc[p] = "reading" /\ call[p].op = "send_query"
        /\ pc[q] = "waiting"
        /\ Len(wire) = MsgLen

\* C2: connect holds the lock like every other operation: while a send_query is
\* between writing its message and finishing its read, the handle is not replaced.
C2_ConnectWaitsForQuery ==
    [][\A p \in Tasks :
          InCriticalSection(p) /\ call[p].op = "send_query" =>
              aioserial_instance' = aioserial_instance]_vars

\* C3: the connection state changes only Unopened -> Open and Open -> Closed; a
\* connect never replaces an open handle and never reopens a closed connection.
C3_OnlyLegalTransitions ==
    [][(aioserial_instance' # aioserial_instance \/ State' # State) =>
          \/ State = "Unopened" /\ State' = "Open"
          \/ State = "Open" /\ State' = "Closed"]_vars

\* C4: send_command and send_query reaching ensure_open on a connection that is
\* not Open fail with NotOpenedError, write nothing, read nothing and leave the
\* connection as it was.
C4_NotOpenedSendFails ==
    [][/\ acquired' # acquired
       /\ Entering.op \in {"send_command", "send_query"}
       /\ State # "Open"
       => /\ result'[Entering.task].status = "NotOpenedError"
          /\ result'[Entering.task].id = Entering.id
          /\ pc'[Entering.task] = "idle"
          /\ wire' = wire
          /\ rx' = rx
          /\ aioserial_instance' = aioserial_instance
          /\ handles' = handles
          /\ State' = State]_vars

\* a send_command issued after close has failed with NotOpenedError
C4_Witness ==
    \E p \in Tasks :
        /\ result[p].op = "send_command"
        /\ result[p].status = "NotOpenedError"
        /\ State = "Closed"
        /\ \E q \in Tasks : result[q].op = "close" /\ result[q].status = "ok"
                            /\ result[q].id < result[p].id

\* C5: close on an Open connection closes the handle and leaves the connection
\* Closed; close on an unopened or closed connection fails with NotOpenedError
\* and changes nothing.
C5_CloseOnlyFromOpen ==
    [][/\ acquired' # acquired
       /\ Entering.op = "close"
       => /\ result'[Entering.task].id = Entering.id
          /\ pc'[Entering.task] = "idle"
          /\ IF State = "Open"
             THEN /\ result'[Entering.task].status = "ok"
                  /\ ~handles'[aioserial_instance].is_open
                  /\ aioserial_instance' = None
                  /\ State' = "Closed"
             ELSE /\ result'[Entering.task].status = "NotOpenedError"
                  /\ aioserial_instance' = aioserial_instance
                  /\ handles' = handles
                  /\ State' = State]_vars

\* a close issued after a successful close has failed with NotOpenedError
C5_Witness ==
    \E p, q \in Tasks :
        /\ result[q].op = "close" /\ result[q].status = "ok"
        /\ result[p].op = "close" /\ result[p].status = "NotOpenedError"
        /\ result[q].id < result[p].id
        /\ State = "Closed"

\* C6: a send_query that returns returns exactly response_size bytes, they are the
\* device's answer to its own message, and they were read from the handle the
\* message was written to.
C6_QueryGetsOwnResponse ==
    \A p \in Tasks :
        result[p].op = "send_query" /\ result[p].status = "ok" =>
            /\ Len(result[p].data) = result[p].size
            /\ \A i \in DOMAIN result[p].data : result[p].data[i] = <<result[p].id, i>>
            /\ result[p].rh = result[p].wh

(* ------------------------ attribute binder claims ---------------------- *)

\* the inner loop of _collect_dev_attributes stores a field in this step
Collecting == stage = "collecting" /\ ai' = ai + 1

\* the attribute the loop is at, its identity and its device-facing name
CurrentAttribute == mapping[ci].attributes[ai].attribute
CurrentId == <<ci, mapping[ci].attributes[ai].name>>
CurrentName == d_attr_name(mapping[ci].path, mapping[ci].attributes[ai].name)

\* floor(update_period * 1000)
FloorMillis(t) == (t.num * 1000) \div t.den

\* C7: the polling period configured for an attribute with an updater is
\* floor(update_period * 1000) milliseconds (0.5 s gives 500, 1.0 s gives 1000).
C7_PollingPeriodIsFloorOfMillis ==
    [][Collecting /\ ~CurrentAttribute.updater.is_none
                  /\ "polling_period" \in DOMAIN collection'[CurrentName]
       => collection'[CurrentName].polling_period =
              FloorMillis(CurrentAttribute.updater.update_period)]_vars

\* C8: the field produced for an attribute has exactly the getter, setter and
\* access qualifier of the attribute's variant, bound to that attribute.
C8_FieldMatchesVariant ==
    [][Collecting =>
        LET f == collection'[CurrentName]
            getter == "fget" \in DOMAIN f /\ f.fget = pick_updater("fget", CurrentId)
            setter == "fset" \in DOMAIN f /\ f.fset = pick_updater("fset", CurrentId)
        IN CASE CurrentAttribute.cls = "AttrRW" ->
                    getter /\ setter /\ f.access = "READ_WRITE"
             [] CurrentAttribute.cls = "AttrR" ->
                    getter /\ "fset" \notin DOMAIN f /\ f.access = "READ"
             [] CurrentAttribute.cls = "AttrW" ->
                    setter /\ "fget" \notin DOMAIN f /\ f.access = "WRITE"]_vars

\* the assembled collection holds a read-only and a write-only field
C8_Witness ==
    /\ stage = "assembled"
    /\ \E n1, n2 \in DOMAIN collection :
        /\ collection[n1].access = "READ" /\ "fset" \notin DOMAIN collection[n1]
        /\ collection[n2].access = "WRITE" /\ "fget" \notin DOMAIN collection[n2]

\* C9: a getter whose attribute has no updater refreshes nothing, does not fail
\* and returns the cached value; with an updater it refreshes and then returns
\* the cached value.
C9_GetterWithoutUpdaterReturnsCached ==
    called.fn = "fget" /\ called.status # "UpdateError" =>
        LET id == collection[called.name].fget.attribute
        IN /\ called.status = "ok"
           /\ called.returned = <<cached[id]>>
           /\ called.refreshed = ~AttributeOf(mapping, id).updater.is_none
           /\ ~called.refreshed => cached[id] = called.cached_before

\* C10 as stated: a field has a polling period exactly when its attribute has an
\* updater, whatever the access variant.
C10_PollingIffUpdater ==
    [][Collecting =>
        ("polling_period" \in DOMAIN collection'[CurrentName]
            <=> ~CurrentAttribute.updater.is_none)]_vars

\* C10 amended: a field has a polling period exactly when its attribute is
\* readable (read-only or read-write) and has an updater; a write-only attribute
\* gets none even with an updater.
C10_PollingIffReadableWithUpdater ==
    [][Collecting =>
        ("polling_period" \in DOMAIN collection'[CurrentName]
            <=> /\ ~CurrentAttribute.updater.is_none
                /\ CurrentAttribute.cls \in {"AttrRW", "AttrR"})]_vars

\* a write-only attribute with an updater was bound without a polling period,
\* next to a polled readable attribute
C10_Witness ==
    \E n1, n2 \in DOMAIN collection :
        /\ collection[n1].access = "WRITE"
        /\ ~AttributeOf(mapping, collection[n1].fset.attribute).updater.is_none
        /\ "polling_period" \notin DOMAIN collection[n1]
        /\ collection[n2].access # "WRITE"
        /\ "polling_period" \in DOMAIN collection[n2]

(* ------------------------------ run claims ----------------------------- *)

\* the stage of a run, by the statement run() is at
RunStage ==
    CASE run_pc \in {"idle", "link"} -> "Unconfigured"
      [] run_pc \in {"attributes", "commands"} -> "Linked"
      [] run_pc = "register" -> "Assembled"
      [] run_pc = "server_run" -> "Registered"
      [] run_pc = "running" -> "Running"

StageOrder ==
    {<<"Unconfigured", "Linked">>, <<"Linked", "Assembled">>,
     <<"Assembled", "Registered">>, <<"Registered", "Running">>}

\* what run() itself does and owns
RunEffects == <<run_pc, class_body, served, db, li, put_linked, sender_linked, ci, ai,
                collection, cci, cai, cmd_collection, reg_pc>>

\* C11: one run() passes through Unconfigured, Linked, Assembled, Registered and
\* Running in that order and never back; a failure of linking, binding or
\* registration is the exception run() raises, after it nothing of run() executes,
\* and after a failure of the database delete, add or read-back the server
\* runtime is never started.
C11_StagesInOrderFailureFatal ==
    /\ [][RunStage' # RunStage => <<RunStage, RunStage'>> \in StageOrder]_vars
    /\ [][run_raised # <<>> => run_raised' = run_raised /\ RunEffects' = RunEffects]_vars
    /\ [](stage = "failed" => run_pc = "attributes" /\ run_raised \in {<<>>, error})
    /\ [](reg_pc = "raised" =>
            /\ run_pc = "register"
            /\ run_raised \in {<<>>, reg_raised}
            /\ served = <<>>)
    /\ [](served # <<>> => run_pc = "running" /\ reg_pc = "returned" /\ stage = "assembled")

\* run() has raised the failure of the read-back or of the add to its caller: the
\* class was assembled, the runtime was not started
C11_Witness ==
    /\ run_raised \in {<<"DevFailed", "get">>, <<"DevFailed", "add">>}
    /\ RunStage = "Assembled"
    /\ class_body # EmptyDict
    /\ served = <<>>

\* the records the database holds under a device name
RecordsOf(dev_name) == SelectSeq(db, LAMBDA r : r.name = dev_name)

\* C12: register_dev removes the record of its device name, adds the new one and
\* reads it back: whatever the database held before and however often it is
\* called, a call fails only when the database service fails a request, and a
\* call that returns leaves exactly one record under its device name, holding
\* the name, class and class/instance of that call, which is the one read back.
C12_RegisterTwiceLeavesOneRecord ==
    /\ reg_pc = "raised" => reg_raised \in {<<"DevFailed", "delete">>,
                                            <<"DevFailed", "add">>, <<"DevFailed", "get">>}
    /\ reg_pc = "returned" =>
          LET info == DbDevInfo(reg_args.dev_name, reg_args.dev_class,
                                <<reg_args.dev_class, "/", reg_args.dsr_instance>>)
          IN /\ RecordsOf(reg_args.dev_name) = <<info>>
             /\ read_dev_info = <<info>>

\* the second call for a device name that was registered under another class has
\* returned
C12_Witness ==
    /\ nregs = 2
    /\ reg_pc = "returned"
    /\ reg_args.dev_class = "FAST_CS_DEVICE"
    /\ db = <<DbDevInfo(reg_args.dev_name, "FAST_CS_DEVICE",
                        <<"FAST_CS_DEVICE", "/", reg_args.dsr_instance>>)>>

\* s is the beginning of t
IsPrefix(s, t) == Len(s) <= Len(t) /\ SubSeq(t, 1, Len(s)) = s

\* what a call of init_device may do, from its first step to its last
InitDeviceRuns ==
    {<<"Device.init_device", "Device.init_device raises">>,
     <<"Device.init_device", "set_state", "connect", "connect returns">>,
     <<"Device.init_device", "set_state", "connect", "connect raises">>}

\* C13: init_device first runs the base initialization, then sets the device
\* state to ON, then awaits connect() of the root controller, in this order; the
\* state is ON exactly once set_state has run; init_device ends normally only
\* when connect() returned, and a failure of connect() is the exception
\* init_device raises.
C13_InitDeviceOrderConnectFailureRaised ==
    /\ \E t \in InitDeviceRuns : IsPrefix(init_trace, t)
    /\ dev_state = "ON" <=> Len(init_trace) >= 2 /\ init_trace[2] = "set_state"
    /\ init_pc = "done" => init_trace \in InitDeviceRuns /\ init_trace[4] = "connect returns"
    /\ Len(init_trace) = 4 /\ init_trace[4] = "connect raises" =>
          init_pc = "raised" /\ init_raised = <<"ConnectError">>
    /\ init_raised = <<>> <=> init_pc # "raised"

\* connect() has failed after the base initialization and the switch to ON, and
\* init_device has raised its failure
C13_Witness ==
    /\ init_trace = <<"Device.init_device", "set_state", "connect", "connect raises">>
    /\ dev_state = "ON"
    /\ init_raised = <<"ConnectError">>

\* the controller and method of the command behind a device-facing name
CommandBehind(name) ==
    CHOOSE b \in UNION {{<<c, commands[c][i]>> : i \in DOMAIN commands[c]} :
                           c \in DOMAIN commands} :
        d_cmd_name(mapping[b[1]].path, b[2].name) = name

\* C14: a failure raised by updater.update, updater.put or a command method leaves
\* the closure as it is: the getter raises it and returns no value, the setter
\* raises it, the command wrapper raises it, and the method was invoked once;
\* without a failure the command wrapper returns the result of its method,
\* invoked exactly once, on its owning controller.
C14_ClosureFailuresPropagate ==
    /\ called.failure # <<>> =>
          /\ called.status = called.failure[1]
          /\ called.returned = <<>>
          /\ called.failure = IF called.fn = "fget" THEN <<"UpdateError">> ELSE <<"PutError">>
    /\ cmd_called.status # "none" =>
          LET b == CommandBehind(cmd_called.name)
          IN /\ invoked = [c \in DOMAIN mapping |-> IF c = b[1] THEN 1 ELSE 0]
             /\ IF cmd_called.failure # <<>>
                THEN cmd_called.status = cmd_called.failure[1] /\ cmd_called.returned = <<>>
                ELSE /\ cmd_called.status = "ok"
                     /\ cmd_called.returned = <<MethodResult(b[2].fn, b[1])>>

\* a getter has raised the failure of update, and the command of the sub
\* controller has returned its method's result
C14_Witness ==
    /\ called.fn = "fget"
    /\ called.failure = <<"UpdateError">>
    /\ called.status = "UpdateError"
    /\ cmd_called.status = "ok"
    /\ cmd_called.controller = 2

\* the binder is at an attribute whose datatype is not boolean, integer or float
AtUnknownType ==
    /\ stage = "collecting"
    /\ ci <= Len(mapping)
    /\ ai <= Len(mapping[ci].attributes)
    /\ CurrentAttribute.datatype.type \notin {"Bool", "Int", "Float"}

\* C15: type mapping of a datatype that is not boolean, integer or float fails
\* with the unsupported-type error (FastCSException "Unsupported type ...")
\* naming the type; the error is the exception run() raises, no field is made for
\* the attribute, register_dev is never called, the database stays as it was and
\* the server runtime is not started.
C15_UnsupportedTypeFatal ==
    /\ [][AtUnknownType /\ dsr_vars' # dsr_vars =>
            /\ stage' = "failed"
            /\ error' = <<"FastCSException", CurrentAttribute.datatype.type>>
            /\ collection' = collection]_vars
    /\ [][stage = "failed" =>
            /\ run_raised' = error
            /\ run_pc' = "attributes"
            /\ dsr_vars' = dsr_vars
            /\ db' = db]_vars
    /\ [](stage = "failed" =>
            /\ run_raised = <<>> => ENABLED attributes_raises
            /\ nregs = 0 /\ reg_pc = "idle"
            /\ class_body = EmptyDict
            /\ served = <<>>)

\* run() has raised the unsupported-type error of a String attribute that came
\* after an attribute it had bound
C15_Witness ==
    /\ run_raised = <<"FastCSException", "String">>
    /\ collection # EmptyDict
    /\ served = <<>>

\* title-casing and removal of the separators in one pass: a letter is upper-cased
\* at the start of a word and lower-cased inside it, a word being a run of letters
RECURSIVE TitleWords(_, _)
TitleWords(str, inside) ==
    IF str = <<>> THEN <<>>
    ELSE LET c == Head(str)
             letter == c \in LowerCase \cup UpperCase
         IN (IF c = "_" THEN <<>>
             ELSE IF inside THEN <<ToLower(c)>> ELSE <<ToUpper(c)>>)
            \o TitleWords(Tail(str), letter)

\* the device-facing name the transform is to give
DeviceFacingName(path, name) ==
    IF path = <<>> THEN TitleWords(name, FALSE)
    ELSE [i \in DOMAIN path |-> ToUpper(path[i])] \o <<"_">> \o TitleWords(name, FALSE)

\* C16: attributes and commands get the same device-facing name for the same
\* path and name: the name title-cased with its underscores removed, prefixed
\* by the upper-cased path and an underscore exactly when the path is not empty;
\* temp_sp gives MOTOR1_TempSp under motor1 and TempSp under the empty path.
C16_DeviceFacingName ==
    /\ named.attribute # <<>> =>
          named.attribute = <<DeviceFacingName(subject.path, subject.name)>>
    /\ named.command # <<>> =>
          named.command = <<DeviceFacingName(subject.path, subject.name)>>
    /\ named.attribute # <<>> /\ named.command # <<>> => named.attribute = named.command
    /\ subject.name = <<"t", "e", "m", "p", "_", "s", "p">> =>
          \A n \in {named.attribute, named.command} \ {<<>>} :
              n[1] = IF subject.path = <<>> THEN <<"T", "e", "m", "p", "S", "p">>
                     ELSE IF subject.path = <<"m", "o", "t", "o", "r", "1">>
                     THEN <<"M", "O", "T", "O", "R", "1", "_", "T", "e", "m", "p", "S", "p">>
                     ELSE n[1]

\* temp_sp under motor1 has been named MOTOR1_TempSp as attribute and as command
C16_Witness ==
    /\ subject = [path |-> <<"m", "o", "t", "o", "r", "1">>,
                  name |-> <<"t", "e", "m", "p", "_", "s", "p">>]
    /\ named.attribute = <<<<"M", "O", "T", "O", "R", "1", "_", "T", "e", "m", "p", "S", "p">>>>
    /\ named.command = named.attribute

\* the attributes of the tree by position: <<controller, index>>
AttrPositions == UNION {{<<c, i>> : i \in DOMAIN mapping[c].attributes} : c \in DOMAIN mapping}

\* the device-facing name of the attribute at a position
NameAt(pos) == d_attr_name(mapping[pos[1]].path, mapping[pos[1]].attributes[pos[2]].name)

\* pos comes before other in the iteration order of the tree
Before(pos, other) == pos[1] < other[1] \/ (pos[1] = other[1] /\ pos[2] < other[2])

\* the last attribute in iteration order that gets the name n
LastNamed(n) ==
    CHOOSE pos \in AttrPositions :
        /\ NameAt(pos) = n
        /\ \A other \in AttrPositions : NameAt(other) = n => ~Before(pos, other)

\* C17: attributes producing the same device-facing name raise no error: the
\* binder fails only on an unsupported datatype, and the mapping it returns holds
\* one field per name, bound to the attribute that comes last in the tree's
\* iteration order; in the class body a command replaces the attribute field of
\* the same name.
C17_LaterFieldReplacesEarlier ==
    /\ stage = "failed" =>
          \E pos \in AttrPositions :
              mapping[pos[1]].attributes[pos[2]].attribute.datatype.type = "String"
    /\ stage = "assembled" =>
          /\ DOMAIN collection = {NameAt(pos) : pos \in AttrPositions}
          /\ \A n \in DOMAIN collection :
                LET pos == LastNamed(n)
                    id == <<pos[1], mapping[pos[1]].attributes[pos[2]].name>>
                IN /\ collection[n].label = n
                   /\ collection[n].fget.attribute = id
                   /\ collection[n].fset.attribute = id
    /\ class_body # EmptyDict =>
          /\ DOMAIN class_body =
                (DOMAIN collection \cup DOMAIN cmd_collection)
                    \cup {<<"init_device">>, <<"green_mode">>}
          /\ \A n \in DOMAIN cmd_collection : class_body[n] = cmd_collection[n]
          /\ \A n \in DOMAIN collection \ DOMAIN cmd_collection :
                class_body[n] = collection[n]

\* on_off and on_Off of the root controller were both bound as OnOff, and the
\* class body holds the command on_off under that name
C17_Witness ==
    /\ class_body # EmptyDict
    /\ Len(mapping[1].attributes) = 2
    /\ DOMAIN collection = {<<"O", "n", "O", "f", "f">>}
    /\ <<"O", "n", "O", "f", "f">> \in DOMAIN cmd_collection
    /\ "f" \in DOMAIN class_body[<<"O", "n", "O", "f", "f">>]

\* both link operations have run once on every controller of the tree
AllLinkedOnce ==
    \A c \in DOMAIN mapping : put_linked[c] = 1 /\ sender_linked[c] = 1

\* C18: in one run() each of the two link operations runs exactly once on every
\* controller of the tree, and all of them have run before the first attribute
\* or command is bound: binding starts, and every field is made, only when all
\* controllers are linked, and nothing is linked again afterwards.
C18_LinkedOncePerControllerBeforeBinding ==
    /\ [](\A c \in DOMAIN mapping : put_linked[c] <= 1 /\ sender_linked[c] <= 1)
    /\ [](stage # "idle" \/ run_pc \notin {"idle", "link"} => AllLinkedOnce)
    /\ [][collection' # collection \/ cmd_collection' # cmd_collection
            => AllLinkedOnce /\ link_vars' = link_vars]_vars
    /\ [][AllLinkedOnce => link_vars' = link_vars]_vars

\* an attribute and a command of the sub controller are bound after both
\* controllers were linked
C18_Witness ==
    /\ AllLinkedOnce
    /\ \E n \in DOMAIN collection : collection[n].fget.controller = 2
    /\ \E n \in DOMAIN cmd_collection : cmd_collection[n].f.controller = 2

(* ------------------- serial transport: lock and handle ----------------- *)

\* C19: whenever a send_command, send_query or close ends, by return, by
\* NotOpenedError, by a failure of the write or read, or by cancellation, the lock
\* is released: only a call suspended inside its critical section holds the lock;
\* and when every I/O in flight returns or fails, no call waits for the lock for
\* ever: again and again no call is left waiting.
C19_LockReleasedWhenCallEnds ==
    /\ [](lock \in {0} \cup Tasks)
    /\ [](\A p \in Tasks : lock = p => InCriticalSection(p))
    /\ [][\A p \in Tasks : InCriticalSection(p) /\ ~InCriticalSection(p)' =>
            pc'[p] = "idle" /\ lock' = 0]_vars
    /\ []<>(\A p \in Tasks : pc[p] # "waiting")

\* a call that held the lock was cancelled in the middle of its write, and the
\* lock is free
C19_Witness ==
    \E p \in Tasks :
        /\ result[p].status = "CancelledError"
        /\ AcquiredAt(result[p].id) > 0
        /\ \E k \in DOMAIN wire : wire[k].id = result[p].id
        /\ lock = 0

\* C20: no write and no read is attempted on a missing handle: while a call is
\* between ensure_open and the end of its last I/O the handle is not None, and
\* no call ends with the AttributeError of None.
C20_NoIOOnMissingHandle ==
    /\ \A p \in Tasks : InCriticalSection(p) => aioserial_instance # None
    /\ \A p \in Tasks : result[p].status # "AttributeError"

\* a send_query reads from the open handle while a close waits for the lock
C20_Witness ==
    \E p, q \in Tasks :
        /\ pc[p] = "reading"
        /\ aioserial_instance = call[p].rh
        /\ pc[q] = "waiting"
        /\ call[q].op = "close"

====
